---- MODULE Spec2Model ----
(***************************************************************************)
(* Model of the CTD 1D storefront (src/1D.py): the scarcity pricing        *)
(* helpers, the cart, checkout, and the cashier's restock.                 *)
(*                                                                         *)
(* The program computes with Python floats (IEEE-754 binary64).  Prices    *)
(* and stock ratios are therefore modelled as binary64 values with their   *)
(* rounding: a double is a record [sgn, m, e] standing for sgn * m * 2^e   *)
(* with m a 53-bit natural number.  Mantissas do not fit the integers of   *)
(* the model checker, so a natural number is held as a little-endian       *)
(* sequence of 15-bit limbs.                                               *)
(***************************************************************************)
EXTENDS Integers, Sequences, FiniteSets, TLC

(***************************************************************************)
(* Natural numbers of any size: little-endian sequences of limbs.          *)
(***************************************************************************)
RECURSIVE IntBitLen(_)
IntBitLen(n) == IF n = 0 THEN 0 ELSE 1 + IntBitLen(n \div 2)

Limb == 2 ^ 15
LimbBits == IntBitLen(Limb) - 1

RECURSIVE BTrim(_)
BTrim(a) ==
    IF a = <<>> THEN <<>>
    ELSE IF a[Len(a)] = 0 THEN BTrim(SubSeq(a, 1, Len(a) - 1))
    ELSE a

RECURSIVE BFromInt(_)
BFromInt(n) == IF n = 0 THEN <<>> ELSE <<n % Limb>> \o BFromInt(n \div Limb)

RECURSIVE BToInt(_)
BToInt(a) == IF a = <<>> THEN 0 ELSE a[1] + Limb * BToInt(Tail(a))

BLimb(a, i) == IF i <= Len(a) THEN a[i] ELSE 0

RECURSIVE BAddFrom(_, _, _, _)
BAddFrom(a, b, i, carry) ==
    IF i > Len(a) /\ i > Len(b)
    THEN (IF carry = 0 THEN <<>> ELSE <<carry>>)
    ELSE <<(BLimb(a, i) + BLimb(b, i) + carry) % Limb>>
         \o BAddFrom(a, b, i + 1, (BLimb(a, i) + BLimb(b, i) + carry) \div Limb)

BAdd(a, b) == BTrim(BAddFrom(a, b, 1, 0))

\* a - b for a >= b
RECURSIVE BSubFrom(_, _, _, _)
BSubFrom(a, b, i, borrow) ==
    IF i > Len(a) THEN <<>>
    ELSE <<(a[i] - BLimb(b, i) - borrow + Limb) % Limb>>
         \o BSubFrom(a, b, i + 1, IF a[i] - BLimb(b, i) - borrow < 0 THEN 1 ELSE 0)

BSub(a, b) == BTrim(BSubFrom(a, b, 1, 0))

\* -1, 0, 1 as a < b, a = b, a > b (both trimmed)
RECURSIVE BCmpAt(_, _, _)
BCmpAt(a, b, i) ==
    IF i = 0 THEN 0
    ELSE IF a[i] < b[i] THEN -1
    ELSE IF a[i] > b[i] THEN 1
    ELSE BCmpAt(a, b, i - 1)

BCmp(a, b) ==
    IF Len(a) < Len(b) THEN -1
    ELSE IF Len(a) > Len(b) THEN 1
    ELSE BCmpAt(a, b, Len(a))

\* a * k for 0 <= k <= Limb
RECURSIVE BMulSmallFrom(_, _, _, _)
BMulSmallFrom(a, k, i, carry) ==
    IF i > Len(a)
    THEN (IF carry = 0 THEN <<>> ELSE <<carry>>)
    ELSE <<(a[i] * k + carry) % Limb>>
         \o BMulSmallFrom(a, k, i + 1, (a[i] * k + carry) \div Limb)

BMulSmall(a, k) == BTrim(BMulSmallFrom(a, k, 1, 0))

Zeros(w) == [i \in 1..w |-> 0]

RECURSIVE BMulFrom(_, _, _)
BMulFrom(a, b, j) ==
    IF j > Len(b) THEN <<>>
    ELSE BAdd(Zeros(j - 1) \o BMulSmall(a, b[j]), BMulFrom(a, b, j + 1))

BMul(a, b) == BMulFrom(a, b, 1)

\* a mod d and a div d for 0 < d <= Limb: long division from the top limb
RECURSIVE BRemFrom(_, _, _)
BRemFrom(a, d, i) ==
    IF i > Len(a) THEN 0 ELSE (BRemFrom(a, d, i + 1) * Limb + a[i]) % d

BMod(a, d) == BRemFrom(a, d, 1)

BQuot(a, d) ==
    BTrim([i \in 1..Len(a) |-> (BRemFrom(a, d, i + 1) * Limb + a[i]) \div d])

\* a * 2^n, floor(a / 2^n) and a mod 2^n
BShl(a, n) ==
    IF a = <<>> THEN <<>>
    ELSE Zeros(n \div LimbBits) \o BMulSmall(a, 2 ^ (n % LimbBits))

BShr(a, n) ==
    IF n \div LimbBits >= Len(a) THEN <<>>
    ELSE BQuot(SubSeq(a, (n \div LimbBits) + 1, Len(a)), 2 ^ (n % LimbBits))

BLow(a, n) ==
    BTrim([i \in 1..((n \div LimbBits) + 1) |->
              IF i <= n \div LimbBits THEN BLimb(a, i)
              ELSE BLimb(a, i) % (2 ^ (n % LimbBits))])

BBitLen(a) ==
    IF a = <<>> THEN 0 ELSE LimbBits * (Len(a) - 1) + IntBitLen(a[Len(a)])

BOdd(a) == a # <<>> /\ a[1] % 2 = 1

\* q, or q + 1 when the part cut off compares to one half as c (-1, 0, 1):
\* to the nearest, ties to even; sticky says that the number is a little more
\* than its digits show (a division left a remainder)
RoundUp(q, c, sticky) ==
    IF c = 1 \/ (c = 0 /\ (sticky \/ BOdd(q))) THEN BAdd(q, <<1>>) ELSE q

\* a / 2^n rounded to the nearest integer
BShrRound(a, n, sticky) ==
    IF n = 0 THEN a
    ELSE RoundUp(BShr(a, n), BCmp(BLow(a, n), BShl(<<1>>, n - 1)), sticky)

(***************************************************************************)
(* Python floats: IEEE-754 binary64, round to nearest, ties to even.       *)
(* [sgn, m, e] is sgn * m * 2^e with 2^52 <= m < 2^53, or zero.            *)
(***************************************************************************)
Precision == 53
GuardBits == 5 * LimbBits + Precision

FZero == [sgn |-> 1, m |-> <<>>, e |-> 0]

\* r * 2^e, where rounding may have carried r up to 2^53
Carry(sgn, r, e) ==
    IF BBitLen(r) > Precision THEN [sgn |-> sgn, m |-> BShr(r, 1), e |-> e + 1]
    ELSE [sgn |-> sgn, m |-> r, e |-> e]

\* the double nearest to sgn * M * 2^e, for M of L bits
RoundAt(sgn, M, e, sticky, L) ==
    IF L = 0 THEN FZero
    ELSE IF L <= Precision
    THEN [sgn |-> sgn, m |-> BShl(M, Precision - L), e |-> e - (Precision - L)]
    ELSE Carry(sgn, BShrRound(M, L - Precision, sticky), e + (L - Precision))

Round53(sgn, M, e, sticky) == RoundAt(sgn, M, e, sticky, BBitLen(M))

\* float(n) for an integer n
FromInt(n) == Round53(IF n < 0 THEN -1 ELSE 1, BFromInt(IF n < 0 THEN -n ELSE n), 0, FALSE)

\* the double nearest to sgn * (A / d) * 2^e
DivRound(sgn, A, d, e) == Round53(sgn, BQuot(A, d), e, BMod(A, d) # 0)

\* the double nearest to n / d, for integers n and 0 < d <= Limb: Python's
\* int / int, and the value of a decimal literal such as 0.10 (10 / 100)
FromRat(n, d) ==
    DivRound(IF n < 0 THEN -1 ELSE 1,
             BShl(BFromInt(IF n < 0 THEN -n ELSE n), GuardBits), d, -GuardBits)

\* x / d for a double x and an integer 0 < d <= Limb
FDivInt(x, d) == DivRound(x.sgn, BShl(x.m, GuardBits), d, x.e - GuardBits)

MinOf(a, b) == IF a <= b THEN a ELSE b

\* sx * X + sy * Y, where c compares X to Y
SumSign(sx, sy, c) == IF sx = sy \/ c >= 0 THEN sx ELSE sy

SumMag(sx, X, sy, Y, c) ==
    IF sx = sy THEN BAdd(X, Y)
    ELSE IF c >= 0 THEN BSub(X, Y)
    ELSE BSub(Y, X)

AddAligned(sx, X, sy, Y, e, c) ==
    Round53(SumSign(sx, sy, c), SumMag(sx, X, sy, Y, c), e, FALSE)

\* the magnitudes of x and y over their common exponent, compared
MagCmp(x, y) ==
    BCmp(BShl(x.m, x.e - MinOf(x.e, y.e)), BShl(y.m, y.e - MinOf(x.e, y.e)))

\* x + y
FAdd(x, y) ==
    IF x.m = <<>> THEN y
    ELSE IF y.m = <<>> THEN x
    ELSE AddAligned(x.sgn, BShl(x.m, x.e - MinOf(x.e, y.e)),
                    y.sgn, BShl(y.m, y.e - MinOf(x.e, y.e)),
                    MinOf(x.e, y.e), MagCmp(x, y))

FNeg(x) == IF x.m = <<>> THEN x ELSE [x EXCEPT !.sgn = -x.sgn]

FSub(x, y) == FAdd(x, FNeg(y))

FMul(x, y) ==
    IF x.m = <<>> \/ y.m = <<>> THEN FZero
    ELSE Round53(x.sgn * y.sgn, BMul(x.m, y.m), x.e + y.e, FALSE)

\* x <= y (zero has sgn 1)
FLe(x, y) ==
    IF x.sgn # y.sgn THEN x.sgn = -1
    ELSE x.sgn * MagCmp(x, y) <= 0

\* round(x, 2) for x >= 0, as a whole number of cents: the multiple of
\* 0.01 nearest to the exact value of x, ties to even
RoundCents(x) ==
    IF x.m = <<>> THEN 0
    ELSE IF x.e >= 0 THEN BToInt(BShl(BMulSmall(x.m, 100), x.e))
    ELSE BToInt(BShrRound(BMulSmall(x.m, 100), -x.e, FALSE))

\* the double that round(x, 2) returns for a value of c cents
FromCents(c) == FromRat(c, 100)

FLt(x, y) == ~FLe(y, x)

FMax(x, y) == IF FLe(y, x) THEN x ELSE y

(***************************************************************************)
(* Constants and the seed catalog.  Money held in the state is a whole     *)
(* number of cents c, standing for the double FromCents(c): base prices    *)
(* are such literals, and every stored price went through round(x, 2).     *)
(* The display-only fields name and img are left out.                      *)
(***************************************************************************)
SERVICE_RATE == FromRat(10, 100)
GST_RATE == FromRat(9, 100)

SeedProducts ==
    << [id |-> "umb_normal", base |-> 1500, stock_init |-> 40, stock_now |-> 40],
       [id |-> "umb_love",   base |-> 2000, stock_init |-> 30, stock_now |-> 30],
       [id |-> "umb_totoro", base |-> 5000, stock_init |-> 10, stock_now |-> 10] >>

\* bounds of the model: the lines added to carts over a run, and the units
\* restocked over a run
MaxLines == 2
MaxRestocked == 20

\* arguments tried.  The Qty box of a product card holds 0..stock_now and
\* the Checkout button shows for a cart that is not empty; the calls of
\* add_to_cart and finalize_checkout tried beside them are the ones the
\* page cannot make.  The cards clicked and the products restocked are the
\* first and the last of the catalog; the second keeps its full stock and
\* enters the average.
UnknownId == "umb_none"
CallIdChoices == {SeedProducts[Len(SeedProducts)].id, UnknownId}
CardChoices == {1, Len(SeedProducts)}
BoxQtyChoices == {0, 1, 7}
CallQtyChoices == {-1, 45}
RestockChoices == {-1, 0, MaxRestocked}

(***************************************************************************)
(* The state: the three lists of st.session_state, the record last of the  *)
(* operation that made the state, and sum_impl, the sum() of the           *)
(* interpreter that runs the program.  The repository pins no interpreter, *)
(* and the builtin sum() of doubles is the plain left-to-right sum up to   *)
(* CPython 3.11 and a compensated (Neumaier) sum from CPython 3.12: a run  *)
(* has one of the two throughout.                                          *)
(***************************************************************************)
VARIABLES products, cart, orders, last, sum_impl

SumImpls == {"plain", "compensated"}

(***************************************************************************)
(* Pricing helpers                                                         *)
(***************************************************************************)
remaining_ratio(p) ==
    IF p.stock_init <= 0 THEN FZero
    ELSE FMax(FZero, FromRat(p.stock_now, p.stock_init))

\* sum(...) of the first n doubles of xs from the integer 0, left to right:
\* sum() up to CPython 3.11, and the running total of the compensated sum
RECURSIVE PlainSum(_, _)
PlainSum(xs, n) == IF n = 0 THEN FromInt(0) ELSE FAdd(PlainSum(xs, n - 1), xs[n])

\* what the compensated sum notes as lost when x is added to the running
\* total f and gives t
Lost(f, x, t) ==
    IF MagCmp(f, x) >= 0 THEN FAdd(FSub(f, t), x) ELSE FAdd(FSub(x, t), f)

\* one turn of the compensated loop: from the total s.f and the compensation
\* s.c, the total t and the compensation after the item x
Turn(s, x, t) == [f |-> t, c |-> FAdd(s.c, Lost(s.f, x, t))]

Compensate(s, x) == Turn(s, x, FAdd(s.f, x))

\* the total and the compensation after n >= 1 items; the first item is
\* added to the integer 0 before the compensated loop begins
RECURSIVE Compensated(_, _)
Compensated(xs, n) ==
    IF n = 1 THEN [f |-> FAdd(FromInt(0), xs[1]), c |-> FZero]
    ELSE Compensate(Compensated(xs, n - 1), xs[n])

\* the total with the compensation added at the end (a compensation of zero
\* leaves the total as it is)
Total(s) == FAdd(s.f, s.c)

\* sum() from CPython 3.12
CompensatedSum(xs, n) == IF n = 0 THEN FromInt(0) ELSE Total(Compensated(xs, n))

\* sum(xs) of the n doubles xs, by the interpreter of the run
FSum(xs, n) ==
    IF sum_impl = "plain" THEN PlainSum(xs, n) ELSE CompensatedSum(xs, n)

avg_remaining_ratio(prods) ==
    IF prods = <<>> THEN FZero
    ELSE FDivInt(FSum([i \in 1..Len(prods) |-> remaining_ratio(prods[i])], Len(prods)),
                 Len(prods))

scarcity_delta(p, rbar) == FSub(rbar, remaining_ratio(p))

\* the markup in hundredths: 5 stands for the literal 0.05
tiered_markup(delta) ==
    IF FLe(delta, FromRat(0, 100)) THEN 5
    ELSE IF FLe(delta, FromRat(10, 100)) THEN 8
    ELSE IF FLe(delta, FromRat(20, 100)) THEN 12
    ELSE IF FLe(delta, FromRat(30, 100)) THEN 17
    ELSE 20

\* in cents
effective_unit_price(p, rbar) ==
    LET m == tiered_markup(scarcity_delta(p, rbar))
    IN  RoundCents(FMul(FromCents(p.base), FAdd(FromInt(1), FromRat(m, 100))))

(***************************************************************************)
(* Cart and totals                                                         *)
(***************************************************************************)
\* next((x for x in products if x["id"] == prod_id), None): the index of the
\* first match, 0 for None
RECURSIVE FindFrom(_, _, _)
FindFrom(prods, prod_id, i) ==
    IF i > Len(prods) THEN 0
    ELSE IF prods[i].id = prod_id THEN i
    ELSE FindFrom(prods, prod_id, i + 1)

Find(prods, prod_id) == FindFrom(prods, prod_id, 1)

\* an add that takes the quantity asked for, whatever the stock
add_to_cart_unclamped(prods, crt, prod_id, qty) ==
    IF qty <= 0 THEN crt
    ELSE IF Find(prods, prod_id) = 0 THEN crt
    ELSE LET p == prods[Find(prods, prod_id)]
         IN  Append(crt, [id |-> p.id,
                          unit |-> effective_unit_price(p, avg_remaining_ratio(prods)),
                          qty |-> qty])

\* the cart after add_to_cart(prod_id, qty)
add_to_cart(prods, crt, prod_id, qty) ==
    IF qty <= 0 THEN crt
    ELSE IF Find(prods, prod_id) = 0 THEN crt
    ELSE LET p == prods[Find(prods, prod_id)]
             q == MinOf(qty, p.stock_now)
         IN  IF q <= 0 THEN crt
             ELSE Append(crt, [id |-> p.id,
                               unit |-> effective_unit_price(p, avg_remaining_ratio(prods)),
                               qty |-> q])

compute_subtotal(crt) ==
    FSum([k \in 1..Len(crt) |-> FMul(FromCents(crt[k].unit), FromInt(crt[k].qty))],
         Len(crt))

MaxOf(a, b) == IF a >= b THEN a ELSE b

\* a "Reduce stock" loop without the floor at 0
RECURSIVE ReduceStock_unfloored(_, _, _)
ReduceStock_unfloored(prods, crt, n) ==
    IF n = 0 THEN prods
    ELSE LET before == ReduceStock_unfloored(prods, crt, n - 1)
             i      == Find(before, crt[n].id)
         IN  IF i = 0 THEN before
             ELSE [before EXCEPT ![i].stock_now = @ - crt[n].qty]

\* the stock after the "Reduce stock" loop over the first n lines
RECURSIVE ReduceStock(_, _, _)
ReduceStock(prods, crt, n) ==
    IF n = 0 THEN prods
    ELSE LET before == ReduceStock(prods, crt, n - 1)
             i      == Find(before, crt[n].id)
         IN  IF i = 0 THEN before
             ELSE [before EXCEPT ![i].stock_now = MaxOf(0, @ - crt[n].qty)]

\* the receipt of finalize_checkout, its totals computed one from another in
\* the order of the code
Receipt(crt, subtotal, service, gst, grand) ==
    [lines    |-> crt,
     subtotal |-> RoundCents(subtotal),
     service  |-> RoundCents(service),
     gst      |-> RoundCents(gst),
     grand    |-> RoundCents(grand)]

WithGst(crt, subtotal, service, taxable, gst) ==
    Receipt(crt, subtotal, service, gst, FAdd(taxable, gst))

WithTaxable(crt, subtotal, service, taxable) ==
    WithGst(crt, subtotal, service, taxable, FMul(taxable, GST_RATE))

WithService(crt, subtotal, service) ==
    WithTaxable(crt, subtotal, service, FAdd(subtotal, service))

WithSubtotal(crt, subtotal) ==
    WithService(crt, subtotal, FMul(subtotal, SERVICE_RATE))

MakeReceipt(crt) == WithSubtotal(crt, compute_subtotal(crt))

\* the cart's lines at the prices of the catalog prods
Repriced(prods, crt) ==
    [k \in 1..Len(crt) |->
        IF Find(prods, crt[k].id) = 0 THEN crt[k]
        ELSE [crt[k] EXCEPT !.unit =
                 effective_unit_price(prods[Find(prods, crt[k].id)],
                                      avg_remaining_ratio(prods))]]

\* a checkout that prices the receipt's lines anew, from the catalog as it
\* finds it, in place of the prices the lines were added at
finalize_checkout_reprice(prods, crt, ords) ==
    IF crt = <<>>
    THEN [products |-> prods, cart |-> crt, orders |-> ords, ret |-> <<>>]
    ELSE [products |-> ReduceStock(prods, crt, Len(crt)),
          cart     |-> <<>>,
          orders   |-> Append(ords, MakeReceipt(Repriced(prods, crt))),
          ret      |-> <<MakeReceipt(Repriced(prods, crt))>>]

\* a checkout without the guard on the empty cart
finalize_checkout_unguarded(prods, crt, ords) ==
    [products |-> ReduceStock(prods, crt, Len(crt)),
     cart     |-> <<>>,
     orders   |-> Append(ords, MakeReceipt(crt)),
     ret      |-> <<MakeReceipt(crt)>>]

\* a checkout that keeps only its own receipt in the history
finalize_checkout_forgetful(prods, crt, ords) ==
    IF crt = <<>>
    THEN [products |-> prods, cart |-> crt, orders |-> ords, ret |-> <<>>]
    ELSE [products |-> ReduceStock(prods, crt, Len(crt)),
          cart     |-> <<>>,
          orders   |-> <<MakeReceipt(crt)>>,
          ret      |-> <<MakeReceipt(crt)>>]

\* the session state after finalize_checkout() and what it returns: ret is
\* <<>> for None, <<receipt>> for a receipt
finalize_checkout(prods, crt, ords) ==
    IF crt = <<>>
    THEN [products |-> prods, cart |-> crt, orders |-> ords, ret |-> <<>>]
    ELSE [products |-> ReduceStock(prods, crt, Len(crt)),
          cart     |-> <<>>,
          orders   |-> Append(ords, MakeReceipt(crt)),
          ret      |-> <<MakeReceipt(crt)>>]

\* a restock that raises stock_now alone
restock_now_only(prods, i, amt) ==
    [prods EXCEPT ![i].stock_now = @ + amt]

\* a restock that raises stock_init alone
restock_init_only(prods, i, amt) ==
    [prods EXCEPT ![i].stock_init = @ + amt]

\* the catalog after the Restock button of product i with amt in the box
restock(prods, i, amt) ==
    [prods EXCEPT ![i].stock_now = @ + amt, ![i].stock_init = @ + amt]

(***************************************************************************)
(* The state machine.  last records the operation that made the state:     *)
(* its name, its arguments, what it returned, the st.success message of    *)
(* its run of the page, and whether it raised.  No path of the program     *)
(* raises.                                                                 *)
(***************************************************************************)
vars == <<products, cart, orders, last, sum_impl>>

Done(op, id, qty, ret, notice) ==
    [op |-> op, id |-> id, qty |-> qty, ret |-> ret, notice |-> notice,
     raised |-> "none"]

Init ==
    /\ products = SeedProducts
    /\ cart = <<>>
    /\ orders = <<>>
    /\ last = Done("init_state", "", 0, <<>>, "")
    /\ sum_impl \in SumImpls

RECURSIVE SumInit(_, _)
SumInit(prods, n) == IF n = 0 THEN 0 ELSE SumInit(prods, n - 1) + prods[n].stock_init

RECURSIVE LinesSold(_, _)
LinesSold(ords, n) == IF n = 0 THEN 0 ELSE LinesSold(ords, n - 1) + Len(ords[n].lines)

LinesAdded == Len(cart) + LinesSold(orders, Len(orders))

\* a call of add_to_cart
AddToCart(prod_id, qty) ==
    /\ LinesAdded < MaxLines
    /\ cart' = add_to_cart(products, cart, prod_id, qty)
    /\ last' = Done("add_to_cart", prod_id, qty, <<>>, "")
    /\ UNCHANGED <<products, orders, sum_impl>>

\* the "Add to cart" button of product i, with q in its Qty box
ProductCardAdd(i, q) ==
    /\ LinesAdded < MaxLines
    /\ 0 <= q /\ q <= products[i].stock_now
    /\ cart' = add_to_cart(products, cart, products[i].id, q)
    /\ last' = Done("product_card", products[i].id, q, <<>>, "Added to cart.")
    /\ UNCHANGED <<products, orders, sum_impl>>

\* a call of finalize_checkout with the cart empty
FinalizeCheckout ==
    /\ cart = <<>>
    /\ LET res == finalize_checkout(products, cart, orders)
       IN  /\ products' = res.products
           /\ cart' = res.cart
           /\ orders' = res.orders
           /\ last' = Done("finalize_checkout", "", 0, res.ret, "")
    /\ UNCHANGED sum_impl

\* the Checkout button, which cart_panel shows for a cart that is not empty
CartPanelCheckout ==
    /\ cart # <<>>
    /\ LET res == finalize_checkout(products, cart, orders)
       IN  /\ products' = res.products
           /\ cart' = res.cart
           /\ orders' = res.orders
           /\ last' = Done("cart_panel", "", 0, res.ret,
                           IF res.ret # <<>> THEN "Payment successful. Thank you!"
                           ELSE "")
    /\ UNCHANGED sum_impl

\* the Restock button of product i; its number box takes no value below 0
Restock(i, amt) ==
    /\ amt >= 0
    /\ SumInit(products, Len(products)) + amt
         <= SumInit(SeedProducts, Len(SeedProducts)) + MaxRestocked
    /\ products' = restock(products, i, amt)
    /\ last' = Done("restock", products[i].id, amt, <<>>, "Restocked.")
    /\ UNCHANGED <<cart, orders, sum_impl>>

Next ==
    \/ \E prod_id \in CallIdChoices, qty \in CallQtyChoices : AddToCart(prod_id, qty)
    \/ \E i \in CardChoices, q \in BoxQtyChoices : ProductCardAdd(i, q)
    \/ FinalizeCheckout
    \/ CartPanelCheckout
    \/ \E i \in CardChoices, amt \in RestockChoices : Restock(i, amt)

Spec == Init /\ [][Next]_vars

(***************************************************************************)
(* The pricing helpers over catalog states: a product card shows the price *)
(* of its product for the catalog as sales have left it.  The stock levels *)
(* tried hold the catalogs whose deltas lie on the tier boundaries.        *)
(***************************************************************************)
StockLevels == << {0, 2, 6, 40}, {3 * k : k \in 0..10}, 0..10 >>

CatalogStates ==
    { [i \in 1..Len(SeedProducts) |-> [SeedProducts[i] EXCEPT !.stock_now = lv[i]]] :
         lv \in StockLevels[1] \X StockLevels[2] \X StockLevels[3] }

PricingInit ==
    /\ products \in CatalogStates
    /\ cart = <<>>
    /\ orders = <<>>
    /\ last = Done("init_state", "", 0, <<>>, "")
    /\ sum_impl \in SumImpls

\* product_card(p, rbar) showing the price of product i
ShowPrice(i) ==
    /\ last' = Done("effective_unit_price", products[i].id, 0,
                    <<effective_unit_price(products[i], avg_remaining_ratio(products))>>, "")
    /\ UNCHANGED <<products, cart, orders, sum_impl>>

PricingNext == \E i \in 1..Len(products) : ShowPrice(i)

PricingSpec == PricingInit /\ [][PricingNext]_vars

(***************************************************************************)
(* The claims.  A step is known by last', the record of the operation that *)
(* made the new state.                                                     *)
(***************************************************************************)
AddOps == {"add_to_cart", "product_card"}
CheckoutOps == {"finalize_checkout", "cart_panel"}

\* the units of item id over the lines
RECURSIVE QtyOf(_, _, _)
QtyOf(lines, id, n) ==
    IF n = 0 THEN 0
    ELSE QtyOf(lines, id, n - 1) + (IF lines[n].id = id THEN lines[n].qty ELSE 0)

Items == 1..Len(products)
Delta(i) == scarcity_delta(products[i], avg_remaining_ratio(products))
PriceNow(i) == effective_unit_price(products[i], avg_remaining_ratio(products))

\* C1: an add never changes the catalog; only a checkout lowers a stock; a
\* checkout sets every item's stock_now to max(0, stock_now - the units of the
\* item in the cart) and leaves stock_init alone
C1_StockFrame ==
    [][/\ last'.op \in AddOps => products' = products
       /\ (\E i \in Items : products'[i].stock_now < products[i].stock_now)
             => last'.op \in CheckoutOps
       /\ last'.op \in CheckoutOps =>
             /\ Len(products') = Len(products)
             /\ \A i \in Items :
                   products'[i] =
                     [products[i] EXCEPT !.stock_now =
                         MaxOf(0, @ - QtyOf(cart, products[i].id, Len(cart)))]
      ]_vars

\* a checkout has floored at 0 the stock of an item the cart held more of
\* than there was
C1_Witness ==
    /\ last.op \in CheckoutOps
    /\ last.ret # <<>>
    /\ \E i \in Items :
          /\ products[i].stock_now = 0
          /\ QtyOf(last.ret[1].lines, products[i].id, Len(last.ret[1].lines))
                > products[i].stock_init

\* C2: a new line's unit price is effective_unit_price of the item over the
\* catalog average at the add; no step changes a line that stays in the cart;
\* the receipt of a checkout carries the cart's lines, prices as locked
C2_PriceLock ==
    [][/\ (last'.op \in AddOps /\ cart' # cart) =>
             /\ Find(products, last'.id) # 0
             /\ Len(cart') = Len(cart) + 1
             /\ cart'[Len(cart')].id = last'.id
             /\ cart'[Len(cart')].unit =
                   effective_unit_price(products[Find(products, last'.id)],
                                        avg_remaining_ratio(products))
       /\ \A k \in 1..Len(cart) : Len(cart') >= k => cart'[k] = cart[k]
       /\ (last'.op \in CheckoutOps /\ cart # <<>>) =>
             /\ orders' # <<>>
             /\ orders'[Len(orders')].lines = cart
             /\ last'.ret = <<orders'[Len(orders')]>>
      ]_vars

\* a restock has moved the price of an item off the price a line of the item
\* in the cart is locked to
C2_Witness ==
    /\ last.op = "restock"
    /\ last.qty > 0
    /\ \E k \in 1..Len(cart) :
          /\ Find(products, cart[k].id) # 0
          /\ cart[k].unit # PriceNow(Find(products, cart[k].id))

\* C3: every receipt has service = round(s * 0.10, 2), tax = round((s +
\* service) * 0.09, 2) on that rounded service, and grand = s + service + tax
C3_RoundedParts ==
    \A n \in 1..Len(orders) :
       LET r == orders[n]
       IN  /\ r.service = RoundCents(FMul(FromCents(r.subtotal), SERVICE_RATE))
           /\ r.gst = RoundCents(FMul(FAdd(FromCents(r.subtotal), FromCents(r.service)),
                                      GST_RATE))
           /\ r.grand = r.subtotal + r.service + r.gst

\* The doc header's quantities as exact fractions.  RatioDen is a common
\* denominator of the remaining ratios, RatioNum(p) the numerator of r_i over
\* it; the delta of item i is ExactDeltaNum(i) / ExactDeltaDen.
RECURSIVE InitProduct(_, _)
InitProduct(prods, n) ==
    IF n = 0 THEN 1
    ELSE InitProduct(prods, n - 1) * MaxOf(1, prods[n].stock_init)

RatioDen == InitProduct(products, Len(products))

RatioNum(p) ==
    IF p.stock_init <= 0 THEN 0 ELSE (p.stock_now * RatioDen) \div p.stock_init

RECURSIVE RatioNumSum(_)
RatioNumSum(n) == IF n = 0 THEN 0 ELSE RatioNumSum(n - 1) + RatioNum(products[n])

ExactDeltaDen == Len(products) * RatioDen
ExactDeltaNum(i) == RatioNumSum(Len(products)) - Len(products) * RatioNum(products[i])

\* the tier table of the doc header for the delta num / den, each row with
\* both its ends; 0 for a delta that no row holds
TableMarkup(num, den) ==
    IF 10 * num <= 0 THEN 5
    ELSE IF 0 < 10 * num /\ 10 * num <= den THEN 8
    ELSE IF den < 10 * num /\ 10 * num <= 2 * den THEN 12
    ELSE IF 2 * den < 10 * num /\ 10 * num <= 3 * den THEN 17
    ELSE IF 3 * den < 10 * num THEN 20
    ELSE 0

\* the base price with the table's markup for the exact delta, in cents (a
\* whole number of cents for the bases of the catalog)
ExactPrice(i) ==
    (products[i].base * (100 + TableMarkup(ExactDeltaNum(i), ExactDeltaDen))) \div 100

\* C4: in every catalog state the markup of every item is the table's for
\* its exact delta, a delta exactly on a boundary taking the lower tier; the
\* price is the base price with that markup; the markup is within 5..20 and
\* does not fall as the exact delta grows
C4_ExactTierTable ==
    \A i \in Items :
       /\ tiered_markup(Delta(i)) = TableMarkup(ExactDeltaNum(i), ExactDeltaDen)
       /\ PriceNow(i) = ExactPrice(i)
       /\ 5 <= tiered_markup(Delta(i)) /\ tiered_markup(Delta(i)) <= 20
       /\ \A j \in Items :
             ExactDeltaNum(j) <= ExactDeltaNum(i)
                => tiered_markup(Delta(j)) <= tiered_markup(Delta(i))
       /\ (last.op = "effective_unit_price" /\ last.id = products[i].id)
             => last.ret = <<ExactPrice(i)>>

\* C5: an add with qty <= 0 or an unknown id raises ValidationError, is not
\* reported as "Added to cart.", and changes nothing
C5_BadAddRejected ==
    [][(last'.op \in AddOps /\ (last'.qty <= 0 \/ Find(products, last'.id) = 0)) =>
          /\ last'.raised = "ValidationError"
          /\ last'.notice # "Added to cart."
          /\ UNCHANGED <<products, cart, orders>>
      ]_vars

\* C6: an add of qty > 0 of an item of the catalog appends one line of
\* min(qty, stock_now) units when the item has stock, and nothing, without an
\* error, when it has none; a new line has 1 <= qty <= stock_now
C6_Clamp ==
    [][(last'.op \in AddOps /\ last'.qty > 0 /\ Find(products, last'.id) # 0) =>
          LET p == products[Find(products, last'.id)]
          IN  /\ last'.raised = "none"
              /\ p.stock_now > 0 =>
                    /\ Len(cart') = Len(cart) + 1
                    /\ SubSeq(cart', 1, Len(cart)) = cart
                    /\ cart'[Len(cart')].id = p.id
                    /\ cart'[Len(cart')].qty = MinOf(last'.qty, p.stock_now)
                    /\ 1 <= cart'[Len(cart')].qty
                    /\ cart'[Len(cart')].qty <= p.stock_now
              /\ p.stock_now = 0 => cart' = cart
      ]_vars

\* an add of more than the stock made a line of the whole stock, and the
\* lines of the item together hold more than the stock
C6_Witness ==
    /\ last.op = "add_to_cart"
    /\ Find(products, last.id) # 0
    /\ cart # <<>>
    /\ last.qty > products[Find(products, last.id)].stock_now
    /\ cart[Len(cart)].id = last.id
    /\ cart[Len(cart)].qty = products[Find(products, last.id)].stock_now
    /\ QtyOf(cart, last.id, Len(cart)) > products[Find(products, last.id)].stock_now

\* C7: a checkout of the empty cart returns None and changes neither the
\* catalog, the cart nor the order history
C7_EmptyCheckout ==
    [][(last'.op \in CheckoutOps /\ cart = <<>>) =>
          /\ last'.ret = <<>>
          /\ UNCHANGED <<products, cart, orders>>
      ]_vars

\* finalize_checkout returned None with receipts in the history
C7_Witness ==
    /\ last.op = "finalize_checkout"
    /\ last.ret = <<>>
    /\ cart = <<>>
    /\ orders # <<>>

\* C8: every item has 0 <= stock_now <= stock_init and a remaining ratio
\* within 0..1; an item with stock_init = 0 has ratio 0
C8_RatioRange ==
    /\ \A i \in Items :
          /\ 0 <= products[i].stock_now
          /\ products[i].stock_now <= products[i].stock_init
          /\ FLe(FromInt(0), remaining_ratio(products[i]))
          /\ FLe(remaining_ratio(products[i]), FromInt(1))
          /\ remaining_ratio([products[i] EXCEPT !.stock_init = 0]) = FromInt(0)

\* after sales and a restock of positive size, an item is sold in part
C8_Witness ==
    /\ last.op = "restock"
    /\ last.qty > 0
    /\ orders # <<>>
    /\ \E i \in Items :
          /\ 0 < products[i].stock_now
          /\ products[i].stock_now < products[i].stock_init
          /\ FLt(FromInt(0), remaining_ratio(products[i]))
          /\ FLt(remaining_ratio(products[i]), FromInt(1))

\* the markup of product j in the catalog prods
MarkupIn(prods, j) ==
    tiered_markup(scarcity_delta(prods[j], avg_remaining_ratio(prods)))

\* C9: a restock by n takes n >= 0, raises the stock_now and the stock_init
\* of its item by n each, and changes no other item, the cart or the orders;
\* it leaves the ratio of a never-sold item as it was and raises the ratio of
\* an item sold in part when n > 0
C9_Restock ==
    [][last'.op = "restock" =>
          LET i == Find(products, last'.id)
              n == last'.qty
          IN  /\ i # 0
              /\ n >= 0
              /\ Len(products') = Len(products)
              /\ products'[i] = [products[i] EXCEPT !.stock_now = @ + n,
                                                    !.stock_init = @ + n]
              /\ \A j \in Items \ {i} : products'[j] = products[j]
              /\ UNCHANGED <<cart, orders>>
              /\ (products[i].stock_now = products[i].stock_init
                    /\ products[i].stock_init > 0)
                    => remaining_ratio(products'[i]) = remaining_ratio(products[i])
              /\ (products[i].stock_now < products[i].stock_init /\ n > 0)
                    => FLt(remaining_ratio(products[i]), remaining_ratio(products'[i]))
      ]_vars

\* a restock of an item sold in part has moved another item's markup tier
C9_Witness ==
    /\ last.op = "restock"
    /\ last.qty > 0
    /\ LET i      == Find(products, last.id)
           before == [products EXCEPT ![i].stock_now = @ - last.qty,
                                      ![i].stock_init = @ - last.qty]
       IN  /\ before[i].stock_now < before[i].stock_init
           /\ \E j \in Items \ {i} : MarkupIn(before, j) # MarkupIn(products, j)

\* C10: a checkout of a cart that is not empty does not fail, appends one
\* receipt holding the cart's lines in their order to the order history, and
\* empties the cart; no step removes, reorders or changes a receipt
C10_Checkout ==
    [][/\ (last'.op \in CheckoutOps /\ cart # <<>>) =>
             /\ last'.raised = "none"
             /\ Len(orders') = Len(orders) + 1
             /\ orders'[Len(orders')].lines = cart
             /\ last'.ret = <<orders'[Len(orders')]>>
             /\ cart' = <<>>
       /\ Len(orders') >= Len(orders)
       /\ SubSeq(orders', 1, Len(orders)) = orders
       /\ last'.op \notin CheckoutOps => orders' = orders
      ]_vars

\* a second checkout has added its receipt behind the first
C10_Witness ==
    /\ last.op = "cart_panel"
    /\ Len(orders) >= 2
    /\ last.ret = <<orders[Len(orders)]>>
    /\ cart = <<>>

====
